---- MODULE Spec2Model ----
(***************************************************************************)
(* Javlt: the self-balancing AVL tree of unique values of jtree            *)
(* (src/src/javlt/mod.rs).  A tree is modelled as the nested value the     *)
(* Rust code owns: Option<Box<Node>> is the empty sequence (None) or a     *)
(* one-element sequence holding the node record (Some).                    *)
(***************************************************************************)
EXTENDS Integers, Sequences, FiniteSets, TLC

\* ---------------------------------------------------------------- bounds
\* The values the calls are made with are 0..MaxVal.
MaxVal == 7

\* The longest collection handed to add_all.
MaxBatch == 2

\* The values a collection handed to add_all is built from are 0..MaxBatchVal.
MaxBatchVal == 2

\* The longest collection handed to from_collection.
MaxFrom == 4

\* The values a collection handed to from_collection is built from are
\* 0..MaxFromVal.
MaxFromVal == 3

\* The values the calls on a Jblst are made with are 0..JblstMaxVal.
JblstMaxVal == 4

\* No add is made on a Jblst whose size has reached JblstMaxSize.
JblstMaxSize == 6

\* The values the calls on a Jbst are made with are 0..JbstMaxVal.
JbstMaxVal == 5

\* The values the calls on a BinTree are made with are 0..BinTreeMaxVal.
BinTreeMaxVal == 4

\* The values of the longer runs on a Javlt are 0..MaxWideVal.
MaxWideVal == 9

\* The values of the insertion-only runs on a Javlt are 0..MaxAddOnlyVal.
MaxAddOnlyVal == 5

Values == 0..MaxVal

WideValues == 0..MaxWideVal
AddOnlyValues == 0..MaxAddOnlyVal

BatchValues == 0..MaxBatchVal

Collections == UNION {[1..n -> BatchValues] : n \in 0..MaxBatch}

FromValues == 0..MaxFromVal

FromCollections == UNION {[1..n -> FromValues] : n \in 0..MaxFrom}

\* ------------------------------------------------------------ the state
VARIABLES root, size, S, last, panicked

vars == <<root, size, S, last, panicked>>

\* ----------------------------------------------------- Option and errors
None == <<>>

Some(n) == <<n>>

Ok == "Ok"

ValueAlreadyStored == "ValueAlreadyStored"

ValueNotFound == "ValueNotFound"

\* a panic (unwrap of None, arithmetic overflow in a debug build)
Panic == "Panic"

Max(a, b) == IF a >= b THEN a ELSE b

\* ------------------------------------------------------------------ Node
\* a new node that claims the height of a subtree of two levels
NodeNew_mut(value) == [value |-> value, height |-> 2, left |-> None, right |-> None]

NodeNew(value) == [value |-> value, height |-> 1, left |-> None, right |-> None]

compute_height(n) ==
  LET left_height == IF n.left = None THEN 0 ELSE n.left[1].height
      right_height == IF n.right = None THEN 0 ELSE n.right[1].height
  IN Max(left_height, right_height) + 1

compute_balancing_factor(n) ==
  LET left_height == IF n.left = None THEN 0 ELSE n.left[1].height
      right_height == IF n.right = None THEN 0 ELSE n.right[1].height
  IN right_height - left_height

\* is_leaf that looks at the left child only
is_leaf_mut(n) == n.left = None

is_leaf(n) == n.left = None /\ n.right = None

\* `self.height = self.compute_height()`
WithHeight(n) == [n EXCEPT !.height = compute_height(n)]

\* a rebuilt node that keeps the height 1 of Node::new
Rebuilt_mut(value, left, right) ==
  [value |-> value, height |-> 1, left |-> left, right |-> right]

\* `let mut x = Node::new(value); x.left = left; x.right = right;
\*  x.height = x.compute_height()`
Rebuilt(value, left, right) ==
  WithHeight([value |-> value, height |-> 1, left |-> left, right |-> right])

\* the left rotation by value migration: the old root's value moves to a new
\* left node that takes the old left subtree and the right child's left
\* subtree; the right child's value and right subtree move up
RotateLeftBlock(n) ==
  WithHeight([n EXCEPT !.left = Some(Rebuilt(n.value, n.left, n.right[1].left)),
                       !.value = n.right[1].value,
                       !.right = n.right[1].right])

\* the right rotation by value migration, the mirror image
RotateRightBlock(n) ==
  WithHeight([n EXCEPT !.right = Some(Rebuilt(n.value, n.left[1].right, n.right)),
                       !.value = n.left[1].value,
                       !.left = n.left[1].left])

\* a left rotation that drops the right child's left subtree
RightRight_mut(n) ==
  WithHeight([n EXCEPT !.left = Some(Rebuilt(n.value, n.left, None)),
                       !.value = n.right[1].value,
                       !.right = n.right[1].right])

\* the Right Right branch of rebalance: one left rotation
RightRight(n) == RotateLeftBlock(n)

\* step 1 of the Right Left branch: rotate the right child's subtree right
RightLeftStep1(n) ==
  [n EXCEPT !.right =
     Some(Rebuilt(n.right[1].left[1].value,
                  n.right[1].left[1].left,
                  Some(Rebuilt(n.right[1].value, n.right[1].left[1].right, n.right[1].right))))]

\* a Right Left rotation whose first step drops the grandchild's right subtree
RightLeft_mut(n) ==
  RotateLeftBlock(
    [n EXCEPT !.right =
       Some(Rebuilt(n.right[1].left[1].value,
                    n.right[1].left[1].left,
                    Some(Rebuilt(n.right[1].value, None, n.right[1].right))))])

\* the Right Left branch: step 1, then step 2 rotates this subtree left
RightLeft(n) == RotateLeftBlock(RightLeftStep1(n))

\* a right rotation that moves the nodes but not the values
LeftLeft_mut(n) ==
  WithHeight([n EXCEPT !.right = Some(Rebuilt(n.left[1].value, n.left[1].right, n.right)),
                       !.left = n.left[1].left])

\* the Left Left branch of rebalance: one right rotation
LeftLeft(n) == RotateRightBlock(n)

\* step 1 of the Left Right branch: rotate the left child's subtree left
LeftRightStep1(n) ==
  [n EXCEPT !.left =
     Some(Rebuilt(n.left[1].right[1].value,
                  Some(Rebuilt(n.left[1].value, n.left[1].left, n.left[1].right[1].left)),
                  n.left[1].right[1].right))]

\* the Left Right branch: step 1, then step 2 rotates this subtree right
LeftRight(n) == RotateRightBlock(LeftRightStep1(n))

\* the node a rebalance leaves
Rebalanced(n) == [panic |-> FALSE, node |-> n]

\* an unwrap() of None inside rebalance
UnwrapNone(n) == [panic |-> TRUE, node |-> n]

\* a rebalance that never rotates
rebalance_mut(n) == Rebalanced(n)

\* rebalance(&mut self): the node afterwards, or a panic when an unwrap
\* meets None
rebalance(n) ==
  LET bf == compute_balancing_factor(n) IN
  IF bf >= -1 /\ bf <= 1 THEN Rebalanced(n)
  ELSE IF bf > 1 THEN
    IF n.right = None THEN UnwrapNone(n)
    ELSE IF compute_balancing_factor(n.right[1]) > 0 THEN Rebalanced(RightRight(n))
    ELSE IF n.right[1].left = None THEN UnwrapNone(n)
    ELSE Rebalanced(RightLeft(n))
  ELSE
    IF n.left = None THEN UnwrapNone(n)
    ELSE IF compute_balancing_factor(n.left[1]) < 0 THEN Rebalanced(LeftLeft(n))
    ELSE IF n.left[1].right = None THEN UnwrapNone(n)
    ELSE Rebalanced(LeftRight(n))

\* what follows a rebalance rb of n: the panic unwinds, or the height is set
AfterRebalance(n, rb) ==
  IF rb.panic THEN [res |-> Panic, node |-> n]
  ELSE [res |-> Ok, node |-> WithHeight(rb.node)]

\* the tail of every successful path:
\* `self.rebalance(); self.height = self.compute_height(); return Ok`
RebalanceAndHeight(n) == AfterRebalance(n, rebalance(n))

\* the left branch of Node::add once the left slot holds sub.node:
\* `?` returns the child's error at once, else rebalance and height
AddedLeft(n, sub) ==
  IF sub.res # Ok THEN [res |-> sub.res, node |-> [n EXCEPT !.left = Some(sub.node)]]
  ELSE RebalanceAndHeight([n EXCEPT !.left = Some(sub.node)])

\* a right branch of Node::add that sets the height without rebalancing
AddedRight_mut(n, sub) ==
  IF sub.res # Ok THEN [res |-> sub.res, node |-> [n EXCEPT !.right = Some(sub.node)]]
  ELSE [res |-> Ok, node |-> WithHeight([n EXCEPT !.right = Some(sub.node)])]

\* the right branch of Node::add once the right slot holds sub.node
AddedRight(n, sub) ==
  IF sub.res # Ok THEN [res |-> sub.res, node |-> [n EXCEPT !.right = Some(sub.node)]]
  ELSE RebalanceAndHeight([n EXCEPT !.right = Some(sub.node)])

RECURSIVE NodeAdd(_, _)
\* `match &mut slot { None => slot = Some(Box::new(Node::new(value))),
\*                    Some(branch) => branch.add(value)? }`
AddInto(slot, value) ==
  IF slot = None THEN [res |-> Ok, node |-> NodeNew(value)]
  ELSE NodeAdd(slot[1], value)

\* Node::add(&mut self, value): the result and the node as the call leaves it
NodeAdd(n, value) ==
  IF value = n.value THEN [res |-> ValueAlreadyStored, node |-> n]
  ELSE IF value < n.value THEN AddedLeft(n, AddInto(n.left, value))
  ELSE AddedRight(n, AddInto(n.right, value))

RECURSIVE NodeContains(_, _)
\* a membership descent that takes the wrong branch
NodeContains_mut(n, value) ==
  IF value = n.value THEN TRUE
  ELSE IF value > n.value THEN
    IF n.left = None THEN FALSE ELSE NodeContains(n.left[1], value)
  ELSE
    IF n.right = None THEN FALSE ELSE NodeContains(n.right[1], value)

\* Node::contains(&self, value)
NodeContains(n, value) ==
  IF value = n.value THEN TRUE
  ELSE IF value < n.value THEN
    IF n.left = None THEN FALSE ELSE NodeContains(n.left[1], value)
  ELSE
    IF n.right = None THEN FALSE ELSE NodeContains(n.right[1], value)

\* a least_value that does not descend
least_value_mut(n) == n.value

RECURSIVE least_value(_)
least_value(n) == IF n.left = None THEN n.value ELSE least_value(n.left[1])

\* a greatest_value that does not descend
greatest_value_mut(n) == n.value

RECURSIVE greatest_value(_)
greatest_value(n) == IF n.right = None THEN n.value ELSE greatest_value(n.right[1])

RECURSIVE collect_values_l_to_r(_)
collect_values_l_to_r(n) ==
  (IF n.left = None THEN <<>> ELSE collect_values_l_to_r(n.left[1]))
    \o <<n.value>> \o
  (IF n.right = None THEN <<>> ELSE collect_values_l_to_r(n.right[1]))

\* a right-to-left traversal that visits the left subtree first
collect_values_r_to_l_mut(n) == collect_values_l_to_r(n)

RECURSIVE collect_values_r_to_l(_)
collect_values_r_to_l(n) ==
  (IF n.right = None THEN <<>> ELSE collect_values_r_to_l(n.right[1]))
    \o <<n.value>> \o
  (IF n.left = None THEN <<>> ELSE collect_values_r_to_l(n.left[1]))

\* a pair (Result, replacement) of drop_value; case names the structural
\* case the matched node was in and inner the discarded Result of the
\* recursive drop of the successor (both only observed)
Dropped(res, opt, case, inner) == [res |-> res, node |-> opt, case |-> case, inner |-> inner]

\* `(Ok(()), Some(Box::new(self)))` after t = rebalance and height
Boxed(t, case, inner) == Dropped(t.res, Some(t.node), case, inner)

\* the tail of the successful paths of drop_value, boxed for the parent
DropTail(n, case, inner) == Boxed(RebalanceAndHeight(n), case, inner)

NotFound(opt) == Dropped(ValueNotFound, opt, "none", "none")

Panicked(opt) == Dropped(Panic, opt, "none", "none")

\* the left branch of drop_value once left_child.drop_value returned sub
DroppedLeft(n, sub) ==
  IF sub.res = Panic THEN Panicked(Some(n))
  ELSE IF sub.res # Ok THEN NotFound(Some([n EXCEPT !.left = sub.node]))
  ELSE DropTail([n EXCEPT !.left = sub.node], sub.case, sub.inner)

\* the right branch of drop_value once right_child.drop_value returned sub
DroppedRight(n, sub) ==
  IF sub.res = Panic THEN Panicked(Some(n))
  ELSE IF sub.res # Ok THEN NotFound(Some([n EXCEPT !.right = sub.node]))
  ELSE DropTail([n EXCEPT !.right = sub.node], sub.case, sub.inner)

\* a two-child case that takes the successor's value but keeps the right
\* subtree as it was
SuccessorDropped_mut(n, successor, sub) ==
  IF sub.res = Panic THEN Panicked(Some(n))
  ELSE DropTail([n EXCEPT !.value = successor], "successor", sub.res)

\* the general two-child case once the right subtree's drop_value of the
\* successor returned sub, whose Result is discarded (`.1`)
SuccessorDropped(n, successor, sub) ==
  IF sub.res = Panic THEN Panicked(Some(n))
  ELSE DropTail([n EXCEPT !.value = successor, !.right = sub.node], "successor", sub.res)

RECURSIVE NodeDrop(_, _)
\* a drop_value that cuts the right subtree off with a node that has only a
\* right child
NodeDrop_mut(n, value) ==
  IF value < n.value THEN
    IF n.left = None THEN NotFound(Some(n))
    ELSE DroppedLeft(n, NodeDrop(n.left[1], value))
  ELSE IF value > n.value THEN
    IF n.right = None THEN NotFound(Some(n))
    ELSE DroppedRight(n, NodeDrop(n.right[1], value))
  ELSE
    IF is_leaf(n) THEN Dropped(Ok, None, "leaf", "none")
    ELSE IF n.left = None THEN Dropped(Ok, None, "right_only", "none")
    ELSE IF n.right = None THEN Dropped(Ok, n.left, "left_only", "none")
    ELSE IF is_leaf(n.right[1])
      THEN DropTail([n EXCEPT !.value = n.right[1].value, !.right = None],
                    "right_leaf", "none")
    ELSE IF is_leaf(n.left[1])
      THEN DropTail([n EXCEPT !.value = n.left[1].value, !.left = None],
                    "left_leaf", "none")
    ELSE SuccessorDropped(n, least_value(n.right[1]),
                          NodeDrop(n.right[1], least_value(n.right[1])))

\* Node::drop_value(self, value): the result and the node that replaces self
NodeDrop(n, value) ==
  IF value < n.value THEN
    IF n.left = None THEN NotFound(Some(n))
    ELSE DroppedLeft(n, NodeDrop(n.left[1], value))
  ELSE IF value > n.value THEN
    IF n.right = None THEN NotFound(Some(n))
    ELSE DroppedRight(n, NodeDrop(n.right[1], value))
  ELSE
    IF is_leaf(n) THEN Dropped(Ok, None, "leaf", "none")
    ELSE IF n.left = None THEN Dropped(Ok, n.right, "right_only", "none")
    ELSE IF n.right = None THEN Dropped(Ok, n.left, "left_only", "none")
    ELSE IF is_leaf(n.right[1])
      THEN DropTail([n EXCEPT !.value = n.right[1].value, !.right = None],
                    "right_leaf", "none")
    ELSE IF is_leaf(n.left[1])
      THEN DropTail([n EXCEPT !.value = n.left[1].value, !.left = None],
                    "left_leaf", "none")
    ELSE SuccessorDropped(n, least_value(n.right[1]),
                          NodeDrop(n.right[1], least_value(n.right[1])))

\* ----------------------------------------------------------------- Javlt
\* a tree handle is [root, size]
JavltNew == [root |-> None, size |-> 0]

\* Javlt::add once the root holds r.node: `?` returns the error before
\* `self.size += 1`
AddedAtRoot(t, r) ==
  IF r.res # Ok THEN [res |-> r.res, tree |-> [t EXCEPT !.root = Some(r.node)]]
  ELSE [res |-> Ok, tree |-> [root |-> Some(r.node), size |-> t.size + 1]]

\* an add that counts the value although the node refused it
JavltAdd_mut(t, value) ==
  IF t.root = None
    THEN [res |-> Ok, tree |-> [root |-> Some(NodeNew(value)), size |-> t.size + 1]]
  ELSE [res |-> NodeAdd(t.root[1], value).res,
        tree |-> [root |-> Some(NodeAdd(t.root[1], value).node), size |-> t.size + 1]]

\* Javlt::add(&mut self, value)
JavltAdd(t, value) ==
  IF t.root = None
    THEN [res |-> Ok, tree |-> [root |-> Some(NodeNew(value)), size |-> t.size + 1]]
  ELSE AddedAtRoot(t, NodeAdd(t.root[1], value))

RECURSIVE AddLoop(_, _, _, _)
\* a batch step that propagates the first error (`self.add(elem)?`)
LoopStep_mut(t, collection, i, results, r) ==
  IF r.res # Ok THEN [res |-> r.res, tree |-> r.tree, results |-> Append(results, r.res)]
  ELSE AddLoop(r.tree, collection, i + 1, Append(results, r.res))

\* one turn of the loop: `let _ = self.add(elem)` returned r, its Result
\* is discarded (results keeps the discarded Results, only observed)
LoopStep(t, collection, i, results, r) ==
  IF r.res = Panic THEN [res |-> Panic, tree |-> t, results |-> Append(results, Panic)]
  ELSE AddLoop(r.tree, collection, i + 1, Append(results, r.res))

\* the loop of add_all_skipping_duplicates from element i on, then Ok(())
AddLoop(t, collection, i, results) ==
  IF i > Len(collection) THEN [res |-> Ok, tree |-> t, results |-> results]
  ELSE LoopStep(t, collection, i, results, JavltAdd(t, collection[i]))

add_all_skipping_duplicates(t, collection) == AddLoop(t, collection, 1, <<>>)

add_all(t, collection) == add_all_skipping_duplicates(t, collection)

\* a from_collection that counts every element of the collection
from_collection_mut(collection) ==
  [root |-> add_all_skipping_duplicates(JavltNew, collection).tree.root,
   size |-> Len(collection)]

from_collection(collection) == add_all_skipping_duplicates(JavltNew, collection).tree

get_size(t) == t.size

contains(t, value) == IF t.root = None THEN FALSE ELSE NodeContains(t.root[1], value)

as_vec_l_to_r(t) == IF t.root = None THEN <<>> ELSE collect_values_l_to_r(t.root[1])

as_vec(t) == as_vec_l_to_r(t)

as_vec_r_to_l(t) == IF t.root = None THEN <<>> ELSE collect_values_r_to_l(t.root[1])

\* Javlt::least_value(&self) -> Option<T>
JavltLeastValue(t) == IF t.root = None THEN None ELSE Some(least_value(t.root[1]))

\* Javlt::greatest_value(&self) -> Option<T>
JavltGreatestValue(t) == IF t.root = None THEN None ELSE Some(greatest_value(t.root[1]))

\* the outcome of Javlt::drop_value, with the observed case and inner
DropOutcome(res, t, case, inner) == [res |-> res, tree |-> t, case |-> case, inner |-> inner]

\* a drop_value that decrements size although the value was not found
DroppedAtRoot_size_mut(t, r) ==
  IF r.res = Panic \/ t.size = 0 THEN DropOutcome(Panic, t, "none", "none")
  ELSE DropOutcome(IF r.res = Ok THEN Ok ELSE ValueNotFound,
                   [root |-> r.node, size |-> t.size - 1], r.case, r.inner)

\* a drop_value that leaves the root taken out when the value was not found
DroppedAtRoot_take_mut(t, r) ==
  IF r.res = Panic THEN DropOutcome(Panic, t, "none", "none")
  ELSE IF r.res # Ok
    THEN DropOutcome(ValueNotFound, [t EXCEPT !.root = None], "none", "none")
  ELSE IF t.size = 0 THEN DropOutcome(Panic, t, "none", "none")
  ELSE DropOutcome(Ok, [root |-> r.node, size |-> t.size - 1], r.case, r.inner)

\* Javlt::drop_value once child.drop_value returned r: the replacement is
\* installed as the root; `self.size -= 1` on the Ok path.  The subtraction
\* on a zero u32 panics in a debug build and wraps to u32::MAX in a release
\* build; both are recorded as the Panic outcome (the underflow of size).
DroppedAtRoot(t, r) ==
  IF r.res = Panic THEN DropOutcome(Panic, t, "none", "none")
  ELSE IF r.res # Ok
    THEN DropOutcome(ValueNotFound, [t EXCEPT !.root = r.node], "none", "none")
  ELSE IF t.size = 0 THEN DropOutcome(Panic, t, "none", "none")
  ELSE DropOutcome(Ok, [root |-> r.node, size |-> t.size - 1], r.case, r.inner)

\* Javlt::drop_value(&mut self, value)
JavltDrop(t, value) ==
  IF t.root = None
    THEN DropOutcome(ValueNotFound, [t EXCEPT !.root = None], "none", "none")
  ELSE DroppedAtRoot(t, NodeDrop(t.root[1], value))

\* the tree handle of the current state
tree == [root |-> root, size |-> size]

\* --------------------------------------------------------------- actions
\* S is the abstract set run side by side with the tree; last records the
\* latest call: its operation, argument, Result, the per-element Results of a
\* batch, and for a drop the structural case it met; panicked is set when a
\* call panics, after which the program makes no further call.
NoValue == MaxVal + 1

Call(op, value, collection, res, results, case, inner) ==
  [op |-> op, value |-> value, collection |-> collection, res |-> res,
   results |-> results, case |-> case, inner |-> inner]

Init ==
  /\ root = JavltNew.root
  /\ size = JavltNew.size
  /\ S = {}
  /\ last = Call("new", NoValue, <<>>, Ok, <<>>, "none", "none")
  /\ panicked = FALSE

\* the effect of a call's outcome r on the program state
Install(r) ==
  /\ panicked' = (r.res = Panic)
  /\ root' = IF r.res = Panic THEN root ELSE r.tree.root
  /\ size' = IF r.res = Panic THEN size ELSE r.tree.size

\* the state after add(value) returned r
AddReturns(value, r) ==
  /\ Install(r)
  /\ S' = IF r.res = Ok THEN S \cup {value} ELSE S
  /\ last' = Call("add", value, <<>>, r.res, <<>>, "none", "none")

Add(value) ==
  /\ ~panicked
  /\ AddReturns(value, JavltAdd(tree, value))

\* the state after add_all(collection) returned r
AddAllReturns(collection, r) ==
  /\ Install(r)
  /\ S' = S \cup {collection[i] : i \in {j \in 1..Len(r.results) : r.results[j] = Ok}}
  /\ last' = Call("add_all", NoValue, collection, r.res, r.results, "none", "none")

AddAll(collection) ==
  /\ ~panicked
  /\ AddAllReturns(collection, add_all(tree, collection))

\* the state after drop_value(value) returned r
DropValueReturns(value, r) ==
  /\ Install(r)
  /\ S' = IF r.res = Ok THEN S \ {value} ELSE S
  /\ last' = Call("drop_value", value, <<>>, r.res, <<>>, r.case, r.inner)

DropValue(value) ==
  /\ ~panicked
  /\ DropValueReturns(value, JavltDrop(tree, value))

Next ==
  \/ \E value \in Values : Add(value)
  \/ \E value \in Values : DropValue(value)

\* any sequence of add and drop_value calls on a new tree
Spec == Init /\ [][Next]_vars

\* add and drop_value over the wider range of values
NextWide ==
  \/ \E value \in WideValues : Add(value)
  \/ \E value \in WideValues : DropValue(value)

SpecWide == Init /\ [][NextWide]_vars

\* only insertions on a new tree: add and add_all, never drop_value
NextAddOnly ==
  \/ \E value \in AddOnlyValues : Add(value)
  \/ \E collection \in Collections : AddAll(collection)

SpecAddOnly == Init /\ [][NextAddOnly]_vars

\* the calls on a new tree with the batch entry point among them
NextBatch ==
  \/ \E value \in BatchValues : Add(value)
  \/ \E collection \in Collections : AddAll(collection)
  \/ \E value \in BatchValues : DropValue(value)

SpecBatch == Init /\ [][NextBatch]_vars

\* the state after `Javlt::from_collection(collection)` built the tree t;
\* r is the outcome of the batch inside it
FromCollectionReturns(collection, r, t) ==
  /\ panicked' = (r.res = Panic)
  /\ root' = t.root
  /\ size' = t.size
  /\ S' = {collection[i] : i \in {j \in 1..Len(r.results) : r.results[j] = Ok}}
  /\ last' = Call("from_collection", NoValue, collection, Ok, r.results, "none", "none")

\* the program constructs its tree from a collection instead of Javlt::new()
FromCollection(collection) ==
  /\ last.op = "new"
  /\ FromCollectionReturns(collection,
                           add_all_skipping_duplicates(JavltNew, collection),
                           from_collection(collection))

\* a tree constructed by new() or from_collection, then used
NextFrom ==
  \/ \E collection \in FromCollections : FromCollection(collection)
  \/ \E value \in FromValues : Add(value)
  \/ \E value \in FromValues : DropValue(value)

SpecFrom == Init /\ [][NextFrom]_vars

\* ------------------------------------------------- structural observers
RECURSIVE SubNodes(_)
\* every node reachable from an Option<Box<Node>>
SubNodes(opt) ==
  IF opt = None THEN {}
  ELSE {opt[1]} \cup SubNodes(opt[1].left) \cup SubNodes(opt[1].right)

RECURSIVE NodeCount(_)
NodeCount(opt) ==
  IF opt = None THEN 0 ELSE 1 + NodeCount(opt[1].left) + NodeCount(opt[1].right)

RECURSIVE TrueHeight(_)
\* the height of a subtree counted on its shape, 0 when absent
TrueHeight(opt) ==
  IF opt = None THEN 0
  ELSE 1 + Max(TrueHeight(opt[1].left), TrueHeight(opt[1].right))

ValuesOf(opt) == {n.value : n \in SubNodes(opt)}

BalanceFactor(n) == TrueHeight(n.right) - TrueHeight(n.left)

\* ----------------------------------------------------------------- Jblst
\* Jblst (src/src/jblst/mod.rs): the binary search tree that keeps
\* duplicates by counting them in the node.  Under SpecJblst the variables
\* root and size hold the fields of a Jblst and S is the bag of the
\* occurrences added and not dropped, as a function from value to count.
JblstValues == 0..JblstMaxVal

JblstNodeNew(value) == [value |-> value, count |-> 1, left |-> None, right |-> None]

\* the result of Node::add once the child slot was written
JblstAdded(res, n) == [res |-> res, node |-> n]

RECURSIVE JblstNodeAdd(_, _)
\* `match &mut slot { None => slot = Some(Box::new(Node::new(value))),
\*                    Some(branch) => branch.add(value)? }`
JblstAddInto(slot, value) ==
  IF slot = None THEN JblstAdded(Ok, JblstNodeNew(value))
  ELSE JblstNodeAdd(slot[1], value)

JblstAddedLeft(n, sub) == JblstAdded(sub.res, [n EXCEPT !.left = Some(sub.node)])

JblstAddedRight(n, sub) == JblstAdded(sub.res, [n EXCEPT !.right = Some(sub.node)])

\* Node::add(&mut self, value): an equal value increments the count
JblstNodeAdd(n, value) ==
  IF value = n.value THEN JblstAdded(Ok, [n EXCEPT !.count = n.count + 1])
  ELSE IF value < n.value THEN JblstAddedLeft(n, JblstAddInto(n.left, value))
  ELSE JblstAddedRight(n, JblstAddInto(n.right, value))

JblstIsLeaf(n) == n.left = None /\ n.right = None

RECURSIVE JblstLeastValue(_)
JblstLeastValue(n) == IF n.left = None THEN n.value ELSE JblstLeastValue(n.left[1])

\* `vec![self.value.clone(); self.count]`
Repeat(value, count) == [i \in 1..count |-> value]

RECURSIVE JblstCollect(_)
\* Node::collect_values_l_to_r: the value count times between the subtrees
JblstCollect(n) ==
  (IF n.left = None THEN <<>> ELSE JblstCollect(n.left[1]))
    \o Repeat(n.value, n.count) \o
  (IF n.right = None THEN <<>> ELSE JblstCollect(n.right[1]))

\* the left branch of drop_value once left_child.drop_value returned sub
JblstDroppedLeft(n, sub) ==
  IF sub.res # Ok THEN NotFound(Some([n EXCEPT !.left = sub.node]))
  ELSE Dropped(Ok, Some([n EXCEPT !.left = sub.node]), sub.case, sub.inner)

\* the right branch of drop_value once right_child.drop_value returned sub
JblstDroppedRight(n, sub) ==
  IF sub.res # Ok THEN NotFound(Some([n EXCEPT !.right = sub.node]))
  ELSE Dropped(Ok, Some([n EXCEPT !.right = sub.node]), sub.case, sub.inner)

\* the general two-child case: the node takes the successor's value (its own
\* count stays) and the right subtree drops that value once; the Result of
\* that drop is discarded
JblstSuccessorDropped(n, successor, sub) ==
  Dropped(Ok, Some([n EXCEPT !.value = successor, !.right = sub.node]), "successor", sub.res)

RECURSIVE JblstNodeDrop(_, _)
\* Node::drop_value(self, value): the result and the node that replaces self
JblstNodeDrop(n, value) ==
  IF value < n.value THEN
    IF n.left = None THEN NotFound(Some(n))
    ELSE JblstDroppedLeft(n, JblstNodeDrop(n.left[1], value))
  ELSE IF value > n.value THEN
    IF n.right = None THEN NotFound(Some(n))
    ELSE JblstDroppedRight(n, JblstNodeDrop(n.right[1], value))
  ELSE
    IF n.count > 1 THEN Dropped(Ok, Some([n EXCEPT !.count = n.count - 1]), "count", "none")
    ELSE IF JblstIsLeaf(n) THEN Dropped(Ok, None, "leaf", "none")
    ELSE IF n.left = None THEN Dropped(Ok, n.right, "right_only", "none")
    ELSE IF n.right = None THEN Dropped(Ok, n.left, "left_only", "none")
    ELSE IF JblstIsLeaf(n.right[1])
      THEN Dropped(Ok, Some([n EXCEPT !.value = n.right[1].value, !.right = None]),
                   "right_leaf", "none")
    ELSE IF JblstIsLeaf(n.left[1])
      THEN Dropped(Ok, Some([n EXCEPT !.value = n.left[1].value, !.left = None]),
                   "left_leaf", "none")
    ELSE JblstSuccessorDropped(n, JblstLeastValue(n.right[1]),
                               JblstNodeDrop(n.right[1], JblstLeastValue(n.right[1])))

JblstNew == [root |-> None, size |-> 0]

\* Jblst::add once the root holds r.node
JblstAddedAtRoot(t, r) ==
  IF r.res # Ok THEN [res |-> r.res, tree |-> [t EXCEPT !.root = Some(r.node)]]
  ELSE [res |-> Ok, tree |-> [root |-> Some(r.node), size |-> t.size + 1]]

\* Jblst::add(&mut self, value)
JblstAdd(t, value) ==
  IF t.root = None
    THEN [res |-> Ok, tree |-> [root |-> Some(JblstNodeNew(value)), size |-> t.size + 1]]
  ELSE JblstAddedAtRoot(t, JblstNodeAdd(t.root[1], value))

JblstGetSize(t) == t.size

JblstAsVecLToR(t) == IF t.root = None THEN <<>> ELSE JblstCollect(t.root[1])

JblstAsVec(t) == JblstAsVecLToR(t)

\* Jblst::drop_value once child.drop_value returned r; `self.size -= 1` on a
\* zero size is recorded as the Panic outcome
JblstDroppedAtRoot(t, r) ==
  IF r.res # Ok
    THEN DropOutcome(ValueNotFound, [t EXCEPT !.root = r.node], "none", "none")
  ELSE IF t.size = 0 THEN DropOutcome(Panic, t, "none", "none")
  ELSE DropOutcome(Ok, [root |-> r.node, size |-> t.size - 1], r.case, r.inner)

\* Jblst::drop_value(&mut self, value)
JblstDrop(t, value) ==
  IF t.root = None
    THEN DropOutcome(ValueNotFound, [t EXCEPT !.root = None], "none", "none")
  ELSE JblstDroppedAtRoot(t, JblstNodeDrop(t.root[1], value))

\* the empty bag
EmptyBagOf(D) == [v \in D |-> 0]

JblstInit ==
  /\ root = JblstNew.root
  /\ size = JblstNew.size
  /\ S = EmptyBagOf(JblstValues)
  /\ last = Call("new", NoValue, <<>>, Ok, <<>>, "none", "none")
  /\ panicked = FALSE

\* the state after Jblst::add(value) returned r
JblstAddReturns(value, r) ==
  /\ Install(r)
  /\ S' = IF r.res = Ok THEN [S EXCEPT ![value] = S[value] + 1] ELSE S
  /\ last' = Call("add", value, <<>>, r.res, <<>>, "none", "none")

JblstAddCall(value) ==
  /\ ~panicked
  /\ size < JblstMaxSize
  /\ JblstAddReturns(value, JblstAdd(tree, value))

\* the state after Jblst::drop_value(value) returned r
JblstDropReturns(value, r) ==
  /\ Install(r)
  /\ S' = IF r.res = Ok /\ S[value] > 0 THEN [S EXCEPT ![value] = S[value] - 1] ELSE S
  /\ last' = Call("drop_value", value, <<>>, r.res, <<>>, r.case, r.inner)

JblstDropCall(value) ==
  /\ ~panicked
  /\ JblstDropReturns(value, JblstDrop(tree, value))

JblstNext ==
  \/ \E value \in JblstValues : JblstAddCall(value)
  \/ \E value \in JblstValues : JblstDropCall(value)

\* any sequence of add and drop_value calls on a new Jblst
SpecJblst == JblstInit /\ [][JblstNext]_vars

\* ------------------------------------------------------------------ Jbst
\* Jbst (src/src/jbst/mod.rs): the plain binary search tree of unique u32
\* values, without heights and without rebalancing.  Under SpecJbst the
\* variables root and size hold the fields of a Jbst and S is the set of
\* values added and not dropped.
JbstValues == 0..JbstMaxVal

JbstNodeNew(value) == [value |-> value, left |-> None, right |-> None]

RECURSIVE JbstNodeAdd(_, _)
\* `match &mut slot { None => slot = Some(Box::new(Node::new(value))),
\*                    Some(branch) => branch.add(value)? }`
JbstAddInto(slot, value) ==
  IF slot = None THEN [res |-> Ok, node |-> JbstNodeNew(value)]
  ELSE JbstNodeAdd(slot[1], value)

JbstAddedLeft(n, sub) == [res |-> sub.res, node |-> [n EXCEPT !.left = Some(sub.node)]]

JbstAddedRight(n, sub) == [res |-> sub.res, node |-> [n EXCEPT !.right = Some(sub.node)]]

\* an add that sends an equal value to the right branch
JbstNodeAdd_mut(n, value) ==
  IF value < n.value THEN JbstAddedLeft(n, JbstAddInto(n.left, value))
  ELSE JbstAddedRight(n, JbstAddInto(n.right, value))

\* Node::add(&mut self, value)
JbstNodeAdd(n, value) ==
  IF value = n.value THEN [res |-> ValueAlreadyStored, node |-> n]
  ELSE IF value < n.value THEN JbstAddedLeft(n, JbstAddInto(n.left, value))
  ELSE JbstAddedRight(n, JbstAddInto(n.right, value))

JbstIsLeaf(n) == n.left = None /\ n.right = None

RECURSIVE JbstLeastValue(_)
JbstLeastValue(n) == IF n.left = None THEN n.value ELSE JbstLeastValue(n.left[1])

RECURSIVE JbstCollect(_)
\* Node::collect_values_l_to_r
JbstCollect(n) ==
  (IF n.left = None THEN <<>> ELSE JbstCollect(n.left[1]))
    \o <<n.value>> \o
  (IF n.right = None THEN <<>> ELSE JbstCollect(n.right[1]))

\* the left branch of drop_value once left_child.drop_value returned sub
JbstDroppedLeft(n, sub) ==
  IF sub.res # Ok THEN NotFound(Some([n EXCEPT !.left = sub.node]))
  ELSE Dropped(Ok, Some([n EXCEPT !.left = sub.node]), sub.case, sub.inner)

\* the right branch of drop_value once right_child.drop_value returned sub
JbstDroppedRight(n, sub) ==
  IF sub.res # Ok THEN NotFound(Some([n EXCEPT !.right = sub.node]))
  ELSE Dropped(Ok, Some([n EXCEPT !.right = sub.node]), sub.case, sub.inner)

\* both children are branches: take the successor's value and let the right
\* subtree drop it, discarding that Result
JbstSuccessorDropped(n, successor, sub) ==
  Dropped(Ok, Some([n EXCEPT !.value = successor, !.right = sub.node]), "successor", sub.res)

RECURSIVE JbstNodeDrop(_, _)
\* Node::drop_value(self, value): the result and the node that replaces self
JbstNodeDrop(n, value) ==
  IF value < n.value THEN
    IF n.left = None THEN NotFound(Some(n))
    ELSE JbstDroppedLeft(n, JbstNodeDrop(n.left[1], value))
  ELSE IF value > n.value THEN
    IF n.right = None THEN NotFound(Some(n))
    ELSE JbstDroppedRight(n, JbstNodeDrop(n.right[1], value))
  ELSE
    IF JbstIsLeaf(n) THEN Dropped(Ok, None, "leaf", "none")
    ELSE IF n.left = None THEN Dropped(Ok, n.right, "right_only", "none")
    ELSE IF n.right = None THEN Dropped(Ok, n.left, "left_only", "none")
    ELSE IF JbstIsLeaf(n.right[1])
      THEN Dropped(Ok, Some([n EXCEPT !.value = n.right[1].value, !.right = None]),
                   "right_leaf", "none")
    ELSE IF JbstIsLeaf(n.left[1])
      THEN Dropped(Ok, Some([n EXCEPT !.value = n.left[1].value, !.left = None]),
                   "left_leaf", "none")
    ELSE JbstSuccessorDropped(n, JbstLeastValue(n.right[1]),
                              JbstNodeDrop(n.right[1], JbstLeastValue(n.right[1])))

JbstNew == [root |-> None, size |-> 0]

\* Jbst::add once the root holds r.node: `?` returns the error before
\* `self.size += 1`
JbstAddedAtRoot(t, r) ==
  IF r.res # Ok THEN [res |-> r.res, tree |-> [t EXCEPT !.root = Some(r.node)]]
  ELSE [res |-> Ok, tree |-> [root |-> Some(r.node), size |-> t.size + 1]]

\* Jbst::add(&mut self, value)
JbstAdd(t, value) ==
  IF t.root = None
    THEN [res |-> Ok, tree |-> [root |-> Some(JbstNodeNew(value)), size |-> t.size + 1]]
  ELSE JbstAddedAtRoot(t, JbstNodeAdd(t.root[1], value))

JbstGetSize(t) == t.size

JbstAsVecLToR(t) == IF t.root = None THEN <<>> ELSE JbstCollect(t.root[1])

JbstAsVec(t) == JbstAsVecLToR(t)

\* Jbst::drop_value once child.drop_value returned r; `self.size -= 1` on a
\* zero size is recorded as the Panic outcome
JbstDroppedAtRoot(t, r) ==
  IF r.res # Ok
    THEN DropOutcome(ValueNotFound, [t EXCEPT !.root = r.node], "none", "none")
  ELSE IF t.size = 0 THEN DropOutcome(Panic, t, "none", "none")
  ELSE DropOutcome(Ok, [root |-> r.node, size |-> t.size - 1], r.case, r.inner)

\* Jbst::drop_value(&mut self, value)
JbstDrop(t, value) ==
  IF t.root = None
    THEN DropOutcome(ValueNotFound, [t EXCEPT !.root = None], "none", "none")
  ELSE JbstDroppedAtRoot(t, JbstNodeDrop(t.root[1], value))

JbstInit ==
  /\ root = JbstNew.root
  /\ size = JbstNew.size
  /\ S = {}
  /\ last = Call("new", NoValue, <<>>, Ok, <<>>, "none", "none")
  /\ panicked = FALSE

JbstAddCall(value) ==
  /\ ~panicked
  /\ AddReturns(value, JbstAdd(tree, value))

JbstDropCall(value) ==
  /\ ~panicked
  /\ DropValueReturns(value, JbstDrop(tree, value))

JbstNext ==
  \/ \E value \in JbstValues : JbstAddCall(value)
  \/ \E value \in JbstValues : JbstDropCall(value)

\* any sequence of add and drop_value calls on a new Jbst
SpecJbst == JbstInit /\ [][JbstNext]_vars

\* --------------------------------------------------------------- BinTree
\* BinTree (src/src/bintree/mod.rs): the binary search tree kept through
\* Rc<RefCell<Node>>.  Every Rc is held by one owner at a time (the clone
\* taken in drop replaces the only other handle), so the tree is modelled as
\* the same nested value.  Under SpecBinTree the variables root and size hold
\* the fields of a BinTree and S is the set of values added and not dropped.
BinTreeValues == 0..BinTreeMaxVal

BinTreeNodeNew(value) == [value |-> value, left |-> None, right |-> None]

RECURSIVE BinTreeNodeAdd(_, _)
\* `match &mut slot { None => slot = Some(Rc::new(RefCell::new(Node::new(value)))),
\*                    Some(branch) => branch.borrow_mut().add(value)? }`
BinTreeAddInto(slot, value) ==
  IF slot = None THEN [res |-> Ok, node |-> BinTreeNodeNew(value)]
  ELSE BinTreeNodeAdd(slot[1], value)

BinTreeAddedLeft(n, sub) == [res |-> sub.res, node |-> [n EXCEPT !.left = Some(sub.node)]]

BinTreeAddedRight(n, sub) == [res |-> sub.res, node |-> [n EXCEPT !.right = Some(sub.node)]]

\* Node::add(&mut self, value)
BinTreeNodeAdd(n, value) ==
  IF value = n.value THEN [res |-> ValueAlreadyStored, node |-> n]
  ELSE IF value < n.value THEN BinTreeAddedLeft(n, BinTreeAddInto(n.left, value))
  ELSE BinTreeAddedRight(n, BinTreeAddInto(n.right, value))

BinTreeIsLeaf(n) == n.left = None /\ n.right = None

RECURSIVE BinTreeCollect(_)
\* Node::collect_values_l_to_r
BinTreeCollect(n) ==
  (IF n.left = None THEN <<>> ELSE BinTreeCollect(n.left[1]))
    \o <<n.value>> \o
  (IF n.right = None THEN <<>> ELSE BinTreeCollect(n.right[1]))

BinTreeNew == [root |-> None, size |-> 0]

\* BinTree::add once the root holds r.node
BinTreeAddedAtRoot(t, r) ==
  IF r.res # Ok THEN [res |-> r.res, tree |-> [t EXCEPT !.root = Some(r.node)]]
  ELSE [res |-> Ok, tree |-> [root |-> Some(r.node), size |-> t.size + 1]]

\* BinTree::add(&mut self, value)
BinTreeAdd(t, value) ==
  IF t.root = None
    THEN [res |-> Ok, tree |-> [root |-> Some(BinTreeNodeNew(value)), size |-> t.size + 1]]
  ELSE BinTreeAddedAtRoot(t, BinTreeNodeAdd(t.root[1], value))

BinTreeGetSize(t) == t.size

\* BinTree::as_vec_l_to_r: empty when size is 0, else the root is unwrapped
BinTreeAsVecLToR(t) == IF t.size = 0 THEN <<>> ELSE BinTreeCollect(t.root[1])

BinTreeAsVec(t) == BinTreeAsVecLToR(t)

\* `self.root = new_root; self.size -= 1; return Ok(())`
BinTreeShrunk(t, new_root, case) ==
  IF t.size = 0 THEN DropOutcome(Panic, t, "none", "none")
  ELSE DropOutcome(Ok, [root |-> new_root, size |-> t.size - 1], case, "none")

\* the body of `if root has the value`: the five cases that return, and the
\* fall-through when both children are branches
BinTreeDropAtRoot(t, n) ==
  IF BinTreeIsLeaf(n) THEN DropOutcome(Ok, [root |-> None, size |-> 0], "leaf", "none")
  ELSE IF n.left = None THEN BinTreeShrunk(t, n.right, "right_only")
  ELSE IF n.right = None THEN BinTreeShrunk(t, n.left, "left_only")
  ELSE IF BinTreeIsLeaf(n.right[1])
    THEN BinTreeShrunk(t, Some([n EXCEPT !.value = n.right[1].value, !.right = None]),
                       "right_leaf")
  ELSE IF BinTreeIsLeaf(n.left[1])
    THEN BinTreeShrunk(t, Some([n EXCEPT !.value = n.left[1].value, !.left = None]),
                       "left_leaf")
  ELSE DropOutcome(Ok, t, "none", "none")

\* BinTree::drop(&mut self, value): the code after the root case is only
\* comments, so every other call ends in the final `Ok(())`
BinTreeDrop(t, value) ==
  IF t.root = None THEN DropOutcome(ValueNotFound, t, "none", "none")
  ELSE IF t.root[1].value = value THEN BinTreeDropAtRoot(t, t.root[1])
  ELSE DropOutcome(Ok, t, "none", "none")

BinTreeInit ==
  /\ root = BinTreeNew.root
  /\ size = BinTreeNew.size
  /\ S = {}
  /\ last = Call("new", NoValue, <<>>, Ok, <<>>, "none", "none")
  /\ panicked = FALSE

BinTreeAddCall(value) ==
  /\ ~panicked
  /\ AddReturns(value, BinTreeAdd(tree, value))

\* the state after BinTree::drop(value) returned r
BinTreeDropReturns(value, r) ==
  /\ Install(r)
  /\ S' = IF r.res = Ok THEN S \ {value} ELSE S
  /\ last' = Call("drop", value, <<>>, r.res, <<>>, r.case, r.inner)

BinTreeDropCall(value) ==
  /\ ~panicked
  /\ BinTreeDropReturns(value, BinTreeDrop(tree, value))

BinTreeNext ==
  \/ \E value \in BinTreeValues : BinTreeAddCall(value)
  \/ \E value \in BinTreeValues : BinTreeDropCall(value)

\* any sequence of add and drop calls on a new BinTree
SpecBinTree == BinTreeInit /\ [][BinTreeNext]_vars

\* ---------------------------------------------------------------- claims
RECURSIVE SortedSeq(_)
\* the ascending enumeration of a finite set of numbers
SortedSeq(T) ==
  IF T = {} THEN <<>>
  ELSE LET m == CHOOSE x \in T : \A y \in T : x <= y
       IN <<m>> \o SortedSeq(T \ {m})

StrictlyAscending(seq) == \A i \in 1..Len(seq) : \A j \in 1..Len(seq) : i < j => seq[i] < seq[j]

Elements(seq) == {seq[i] : i \in 1..Len(seq)}

\* C1: after every add or drop_value, every node of the tree has balance
\* factor height(right) - height(left) in [-1, 1], also after deletions.
C1_Balanced == \A n \in SubNodes(root) : BalanceFactor(n) \in -1..1

\* C2: after every add or drop_value, at every node all values of the left
\* subtree are strictly less and all values of the right subtree strictly
\* greater than the node's value; no value occurs twice and as_vec_l_to_r()
\* is strictly ascending.
C2_SearchTreeOrder ==
  /\ \A n \in SubNodes(root) :
       /\ \A v \in ValuesOf(n.left) : v < n.value
       /\ \A v \in ValuesOf(n.right) : v > n.value
  /\ NodeCount(root) = Cardinality(ValuesOf(root))
  /\ StrictlyAscending(as_vec_l_to_r(tree))

C2_Witness ==
  /\ last.op = "drop_value" /\ last.res = Ok /\ last.case = "successor"
  /\ Len(as_vec_l_to_r(tree)) >= 5

\* C3: after every add or drop_value, get_size() is the number of nodes
\* reachable from the root, and the root is absent exactly when the size is 0.
C3_SizeIsNodeCount ==
  /\ get_size(tree) = NodeCount(root)
  /\ (root = None) <=> (get_size(tree) = 0)

C3_Witness ==
  /\ last.op = "drop_value" /\ last.res = Ok
  /\ root = None /\ size = 0

\* C4: run side by side with the abstract set S, after every call
\* as_vec_l_to_r() is the ascending enumeration of S; add(v) returns Ok iff
\* v was not in S and drop_value(v) returns Ok iff v was in S.
C4_RefinesSet ==
  [][ /\ as_vec_l_to_r(tree') = SortedSeq(S')
      /\ last'.op = "add" => ((last'.res = Ok) <=> (last'.value \notin S))
      /\ last'.op = "drop_value" => ((last'.res = Ok) <=> (last'.value \in S)) ]_vars

C4_Witness ==
  /\ last.op = "drop_value" /\ last.res = Ok /\ last.case = "left_leaf"
  /\ Cardinality(S) >= 4
  /\ as_vec_l_to_r(tree) = SortedSeq(S)

\* C5: contains(v) is true for every value successfully added and not
\* dropped since, and false for every other value.
C5_Membership == \A v \in Values : contains(tree, v) <=> (v \in S)

C5_Witness ==
  /\ last.op = "drop_value" /\ last.res = Ok
  /\ ~contains(tree, last.value)
  /\ \E v \in Values : contains(tree, v) /\ v # root[1].value
  /\ TrueHeight(root) >= 3

\* C6: add(v) of a stored v returns ValueAlreadyStored and leaves the tree
\* identical: same shape, values and cached heights at every node, same size.
C6_DuplicateAddLeavesTree ==
  [][ (last'.op = "add" /\ last'.value \in ValuesOf(root))
        => (last'.res = ValueAlreadyStored /\ root' = root /\ size' = size) ]_vars

C6_Witness ==
  /\ last.op = "add" /\ last.res = ValueAlreadyStored
  /\ TrueHeight(root) >= 3
  /\ \E n \in SubNodes(root) : n.value = last.value /\ is_leaf(n)

\* C7: drop_value(v) on an empty tree or of a value that is not stored
\* returns ValueNotFound and leaves the tree identical (shape, values,
\* cached heights, size).
C7_AbsentDropLeavesTree ==
  [][ (last'.op = "drop_value" /\ last'.value \notin ValuesOf(root))
        => (last'.res = ValueNotFound /\ root' = root /\ size' = size) ]_vars

C7_Witness ==
  /\ last.op = "drop_value" /\ last.res = ValueNotFound
  /\ TrueHeight(root) >= 3

\* C8: add(v) of a value that is not stored returns Ok, increases
\* get_size() by one, makes contains(v) true and leaves the membership of
\* every other value unchanged.
C8_AddNewValue ==
  [][ (last'.op = "add" /\ last'.value \notin ValuesOf(root))
        => /\ last'.res = Ok
           /\ get_size(tree') = get_size(tree) + 1
           /\ contains(tree', last'.value)
           /\ \A w \in Values \ {last'.value} : contains(tree', w) <=> contains(tree, w) ]_vars

C8_Witness ==
  /\ last.op = "add" /\ last.res = Ok
  /\ contains(tree, last.value)
  /\ size >= 6

\* C9: drop_value(v) of a stored value returns Ok, decreases get_size() by
\* one, makes contains(v) false and removes no other value, in every
\* structural case of the matched node.
C9_DropStoredValue ==
  [][ (last'.op = "drop_value" /\ last'.value \in ValuesOf(root))
        => /\ last'.res = Ok
           /\ get_size(tree') = get_size(tree) - 1
           /\ ~contains(tree', last'.value)
           /\ ValuesOf(root') = ValuesOf(root) \ {last'.value}
           /\ \A w \in Values \ {last'.value} : contains(tree', w) <=> contains(tree, w) ]_vars

C9_Witness ==
  /\ last.op = "drop_value" /\ last.res = Ok /\ last.case = "successor"
  /\ ~contains(tree, last.value)
  /\ size >= 4

\* C10: add_all / add_all_skipping_duplicates always returns Ok and
\* processes every element: a stored or repeated element is skipped without
\* stopping the batch, the stored set becomes the old set united with the
\* collection's elements, and get_size() grows by the number of distinct new
\* values.
C10_BatchSkipsDuplicates ==
  [][ last'.op = "add_all"
        => /\ last'.res = Ok
           /\ Len(last'.results) = Len(last'.collection)
           /\ ValuesOf(root') = ValuesOf(root) \cup Elements(last'.collection)
           /\ get_size(tree') = get_size(tree)
                + Cardinality(Elements(last'.collection) \ ValuesOf(root)) ]_vars

C10_Witness ==
  /\ last.op = "add_all" /\ last.res = Ok
  /\ \E i \in 1..Len(last.results) : \E j \in 1..Len(last.results) :
       i < j /\ last.results[i] = ValueAlreadyStored /\ last.results[j] = Ok

RECURSIVE MinNodes(_)
\* N(h): the fewest nodes a height-balanced tree of height h can have
MinNodes(h) == IF h <= 0 THEN 0 ELSE IF h = 1 THEN 1 ELSE MinNodes(h - 1) + MinNodes(h - 2) + 1

\* the cached height of the root, 0 for the empty tree
RootHeight(t) == IF t.root = None THEN 0 ELSE t.root[1].height

\* C11: after any sequence of add and drop_value calls the height stays
\* logarithmic in the size: get_size() >= N(h) for h the root's height, with
\* N(0) = 0, N(1) = 1, N(h) = N(h-1) + N(h-2) + 1.
C11_HeightLogarithmic == get_size(tree) >= MinNodes(RootHeight(tree))

\* C12: after every add or drop_value the cached height of every node is
\* 1 + max(height of its left child or 0, height of its right child or 0),
\* the nodes rebuilt by rotations and re-attached by deletion included.
C12_CachedHeight ==
  \A n \in SubNodes(root) :
    /\ n.height = compute_height(n)
    /\ n.height = TrueHeight(Some(n))

\* an added value stands at the root of a three-node tree: a double rotation
\* rebuilt both children and moved the new value up
C12_Witness ==
  /\ last.op = "add" /\ last.res = Ok
  /\ size = 3 /\ root[1].value = last.value
  /\ root[1].height = 2 /\ root[1].left # None /\ root[1].right # None

\* C13: from_collection(c) builds a tree whose as_vec() is the ascending list
\* of the distinct values of c and whose get_size() is the number of distinct
\* values, for any c, repeated values included.
C13_FromCollection ==
  last.op = "from_collection"
    => /\ as_vec(tree) = SortedSeq(Elements(last.collection))
       /\ get_size(tree) = Cardinality(Elements(last.collection))

\* a collection of four elements, out of order, one value repeated
C13_Witness ==
  /\ last.op = "from_collection" /\ Len(last.collection) = 4
  /\ last.collection[1] > last.collection[2]
  /\ last.collection[4] = last.collection[1]
  /\ get_size(tree) = 3 /\ Len(as_vec(tree)) = 3

\* C14: after any sequence of calls least_value() and greatest_value() return
\* None on an empty tree, and otherwise the minimum and the maximum of the
\* stored set, which are the first and the last element of as_vec_l_to_r().
C14_LeastGreatest ==
  /\ S = {} => (JavltLeastValue(tree) = None /\ JavltGreatestValue(tree) = None)
  /\ S # {} =>
       /\ JavltLeastValue(tree) = Some(CHOOSE x \in S : \A y \in S : x <= y)
       /\ JavltGreatestValue(tree) = Some(CHOOSE x \in S : \A y \in S : x >= y)
       /\ JavltLeastValue(tree) = Some(Head(as_vec_l_to_r(tree)))
       /\ JavltGreatestValue(tree) = Some(as_vec_l_to_r(tree)[Len(as_vec_l_to_r(tree))])

\* the old minimum was just dropped; the extremes are not at the root
C14_Witness ==
  /\ last.op = "drop_value" /\ last.res = Ok /\ size >= 4
  /\ JavltLeastValue(tree) # None /\ JavltLeastValue(tree)[1] > last.value
  /\ JavltLeastValue(tree)[1] < root[1].value
  /\ JavltGreatestValue(tree)[1] > root[1].value

Reverse(seq) == [i \in 1..Len(seq) |-> seq[Len(seq) + 1 - i]]

\* C15: for every reachable tree as_vec_r_to_l() is exactly the reverse of
\* as_vec_l_to_r(), and as_vec() equals as_vec_l_to_r().
C15_ReverseTraversal ==
  /\ as_vec_r_to_l(tree) = Reverse(as_vec_l_to_r(tree))
  /\ as_vec(tree) = as_vec_l_to_r(tree)

\* a tree of at least five values after a drop that replaced a two-child node
C15_Witness ==
  /\ last.op = "drop_value" /\ last.res = Ok /\ last.case = "right_leaf"
  /\ Len(as_vec_r_to_l(tree)) >= 5
  /\ as_vec_r_to_l(tree)[1] > as_vec_r_to_l(tree)[5]
  /\ as_vec_l_to_r(tree)[1] < as_vec_l_to_r(tree)[5]

\* C16: Jblst: after any sequence of add and drop_value calls get_size()
\* equals the length of as_vec(), the number of stored occurrences with the
\* duplicates counted.
C16_JblstSizeIsLength == JblstGetSize(tree) = Len(JblstAsVec(tree))

\* how often v occurs in seq
Occurrences(seq, v) == Cardinality({i \in 1..Len(seq) : seq[i] = v})

\* C17: Jblst: a successful drop_value(v) removes exactly one occurrence of v
\* and nothing else: the multiset of as_vec() afterwards is the multiset
\* before minus one copy of v, also when the removed node has two children and
\* the child or successor that replaces it has a count above 1.
C17_JblstDropsOneOccurrence ==
  [][ (last'.op = "drop_value" /\ last'.res = Ok)
        => \A v \in JblstValues :
             Occurrences(JblstAsVec(tree'), v)
               = Occurrences(JblstAsVec(tree), v) - (IF v = last'.value THEN 1 ELSE 0) ]_vars

\* C18: Jbst: after any sequence of add and drop_value calls as_vec() is
\* strictly ascending without duplicates and get_size() is its length; add of
\* a stored value returns ValueAlreadyStored and drop_value of an absent value
\* returns ValueNotFound, both without changing the tree.
C18_JbstOrderedSet ==
  [][ /\ StrictlyAscending(JbstAsVec(tree'))
      /\ JbstGetSize(tree') = Len(JbstAsVec(tree'))
      /\ (last'.op = "add" /\ last'.value \in Elements(JbstAsVec(tree)))
           => (last'.res = ValueAlreadyStored /\ root' = root /\ size' = size)
      /\ (last'.op = "drop_value" /\ last'.value \notin Elements(JbstAsVec(tree)))
           => (last'.res = ValueNotFound /\ root' = root /\ size' = size) ]_vars

\* a stored value below the root of a one-sided tree was added again
C18_Witness ==
  /\ last.op = "add" /\ last.res = ValueAlreadyStored
  /\ JbstGetSize(tree) >= 4 /\ Len(JbstAsVec(tree)) >= 4
  /\ root[1].left = None /\ last.value > root[1].value

\* C19: BinTree::drop(v): if v is in the tree it is deleted (the size goes
\* down by one and v is no longer in as_vec()); otherwise the call returns
\* ValueNotFound and the tree is unchanged; this for v anywhere in the tree
\* and not only at the root.
C19_BinTreeDrop ==
  [][ last'.op = "drop" =>
        IF last'.value \in Elements(BinTreeAsVec(tree))
          THEN /\ last'.res = Ok
               /\ BinTreeGetSize(tree') = BinTreeGetSize(tree) - 1
               /\ last'.value \notin Elements(BinTreeAsVec(tree'))
          ELSE /\ last'.res = ValueNotFound
               /\ root' = root /\ size' = size ]_vars

\* the root node as the call op(value), which descends into a child of the
\* root and succeeds there, hands it to rebalance: the child slot already
\* holds what the recursive call left
RootBeforeRebalance(t, op, value) ==
  IF op = "add" THEN
    IF value < t.root[1].value
      THEN [t.root[1] EXCEPT !.left = Some(AddInto(t.root[1].left, value).node)]
      ELSE [t.root[1] EXCEPT !.right = Some(AddInto(t.root[1].right, value).node)]
  ELSE
    IF value < t.root[1].value
      THEN [t.root[1] EXCEPT !.left = NodeDrop(t.root[1].left[1], value).node]
      ELSE [t.root[1] EXCEPT !.right = NodeDrop(t.root[1].right[1], value).node]

\* post is pre after one left rotation: the right child's value at the top,
\* the old root's value in a left child over the old left subtree and the
\* right child's left subtree, the right child's right subtree on the right
IsSingleLeftRotation(pre, post) ==
  /\ post.value = pre.right[1].value
  /\ post.left # None
  /\ post.left[1].value = pre.value
  /\ post.left[1].left = pre.left
  /\ post.left[1].right = pre.right[1].left
  /\ post.right = pre.right[1].right

\* C20: when rebalance meets a node with balance factor above 1 whose right
\* child has balance factor >= 0 (0 included) it performs one left rotation;
\* the double rotation is performed only when the right child's balance
\* factor is negative.  Stated for the rebalance of the root after a
\* successful add or drop_value below the root.
C20_RightHeavySingleRotation ==
  [][ (/\ root # None
       /\ last'.op \in {"add", "drop_value"} /\ last'.res = Ok
       /\ last'.value # root[1].value
       /\ compute_balancing_factor(RootBeforeRebalance(tree, last'.op, last'.value)) > 1)
        => IF compute_balancing_factor(
                RootBeforeRebalance(tree, last'.op, last'.value).right[1]) >= 0
             THEN IsSingleLeftRotation(RootBeforeRebalance(tree, last'.op, last'.value),
                                       root'[1])
             ELSE root'[1].value
                    = RootBeforeRebalance(tree, last'.op, last'.value).right[1].left[1].value ]_vars

\* post is pre after one right rotation: the left child's value at the top,
\* the old root's value in a right child over the left child's right subtree
\* and the old right subtree, the left child's left subtree on the left
IsSingleRightRotation(pre, post) ==
  /\ post.value = pre.left[1].value
  /\ post.right # None
  /\ post.right[1].value = pre.value
  /\ post.right[1].right = pre.right
  /\ post.right[1].left = pre.left[1].right
  /\ post.left = pre.left[1].left

\* C21: when rebalance meets a node with balance factor below -1, the Left
\* Right double rotation is performed only when the left child is right-heavy
\* (balance factor > 0); when the left child's balance factor is <= 0 (0
\* included) one right rotation is performed and the old left child's value
\* becomes the subtree root.  Stated for the rebalance of the root after a
\* successful add or drop_value below the root.
C21_LeftHeavySingleRotation ==
  [][ (/\ root # None
       /\ last'.op \in {"add", "drop_value"} /\ last'.res = Ok
       /\ last'.value # root[1].value
       /\ compute_balancing_factor(RootBeforeRebalance(tree, last'.op, last'.value)) < -1)
        => IF compute_balancing_factor(
                RootBeforeRebalance(tree, last'.op, last'.value).left[1]) <= 0
             THEN IsSingleRightRotation(RootBeforeRebalance(tree, last'.op, last'.value),
                                        root'[1])
             ELSE root'[1].value
                    = RootBeforeRebalance(tree, last'.op, last'.value).left[1].right[1].value ]_vars

\* the nodes of the tree that hold both children
TwoChildNodes(opt) == {n \in SubNodes(opt) : n.left # None /\ n.right # None}

\* the two-child node n whose own value is dropped, as the equal branch of
\* drop_value leaves it at the moment it calls self.rebalance()
TwoChildReplaced(n) ==
  IF is_leaf(n.right[1]) THEN [n EXCEPT !.value = n.right[1].value, !.right = None]
  ELSE IF is_leaf(n.left[1]) THEN [n EXCEPT !.value = n.left[1].value, !.left = None]
  ELSE [n EXCEPT !.value = least_value(n.right[1]),
                 !.right = NodeDrop(n.right[1], least_value(n.right[1])).node]

\* replaced is n with its value overwritten by its in-order successor and
\* the successor removed from the right subtree, the left subtree untouched
SuccessorReplaces(n, replaced) ==
  /\ replaced.value = least_value(n.right[1])
  /\ replaced.left = n.left
  /\ ValuesOf(replaced.right) = ValuesOf(n.right) \ {least_value(n.right[1])}

RECURSIVE AddRebalanced(_, _)
\* the nodes handed to rebalance below the child slot during Node::add
AddRebalancedBelow(slot, value) ==
  IF slot = None THEN {} ELSE AddRebalanced(slot[1], value)

\* n with its child slot written by the add below, when that add returned Ok
\* and so `self.rebalance()` is reached
AddRebalancedHere(sub, n) == IF sub.res = Ok THEN {n} ELSE {}

\* every node on which Node::add(n, value) invokes rebalance, each as it
\* stands at the moment of the call
AddRebalanced(n, value) ==
  IF value = n.value THEN {}
  ELSE IF value < n.value
    THEN AddRebalancedBelow(n.left, value)
           \cup AddRebalancedHere(AddInto(n.left, value),
                                  [n EXCEPT !.left = Some(AddInto(n.left, value).node)])
  ELSE AddRebalancedBelow(n.right, value)
         \cup AddRebalancedHere(AddInto(n.right, value),
                                [n EXCEPT !.right = Some(AddInto(n.right, value).node)])

RECURSIVE DropRebalanced(_, _)
\* the nodes handed to rebalance below the child slot during Node::drop_value
DropRebalancedBelow(slot, value) ==
  IF slot = None THEN {} ELSE DropRebalanced(slot[1], value)

\* n with its child slot written by the drop below, when that drop returned
\* Ok and so `self.rebalance()` is reached
DropRebalancedHere(sub, n) == IF sub.res = Ok THEN {n} ELSE {}

\* the successor case: rebalance is reached whatever Result the inner drop
\* returned, unless it panicked
SuccessorRebalancedHere(sub, n) == IF sub.res = Panic THEN {} ELSE {n}

\* every node on which Node::drop_value(n, value) invokes rebalance, each as
\* it stands at the moment of the call
DropRebalanced(n, value) ==
  IF value < n.value THEN
    IF n.left = None THEN {}
    ELSE DropRebalanced(n.left[1], value)
           \cup DropRebalancedHere(NodeDrop(n.left[1], value),
                                   [n EXCEPT !.left = NodeDrop(n.left[1], value).node])
  ELSE IF value > n.value THEN
    IF n.right = None THEN {}
    ELSE DropRebalanced(n.right[1], value)
           \cup DropRebalancedHere(NodeDrop(n.right[1], value),
                                   [n EXCEPT !.right = NodeDrop(n.right[1], value).node])
  ELSE
    IF is_leaf(n) \/ n.left = None \/ n.right = None THEN {}
    ELSE IF is_leaf(n.right[1]) \/ is_leaf(n.left[1]) THEN {TwoChildReplaced(n)}
    ELSE DropRebalanced(n.right[1], least_value(n.right[1]))
           \cup SuccessorRebalancedHere(NodeDrop(n.right[1], least_value(n.right[1])),
                                        TwoChildReplaced(n))

\* every node on which the call op(value) on the tree t invokes rebalance
RebalanceInputs(t, op, value) ==
  IF t.root = None THEN {}
  ELSE IF op = "add" THEN AddRebalanced(t.root[1], value)
  ELSE IF op = "drop_value" THEN DropRebalanced(t.root[1], value)
  ELSE {}

\* C23: every time rebalance is invoked during any sequence of add and
\* drop_value calls from an empty tree, the balance factor of the node it is
\* invoked on is within [-2, 2] at that moment.
C23_RebalanceInputWithinTwo ==
  [][ \A m \in RebalanceInputs(tree, last'.op, last'.value) :
        compute_balancing_factor(m) \in -2..2 ]_vars

\* every node below opt has balance factor in [-1, 1]
IsAVL(opt) == \A n \in SubNodes(opt) : BalanceFactor(n) \in -1..1

\* the results one single or one double rotation of m can give
OneRotationOf(m) ==
  (IF m.right # None THEN {RightRight(m)} ELSE {})
    \cup (IF m.right # None /\ m.right[1].left # None THEN {RightLeft(m)} ELSE {})
    \cup (IF m.left # None THEN {LeftLeft(m)} ELSE {})
    \cup (IF m.left # None /\ m.left[1].right # None THEN {LeftRight(m)} ELSE {})

\* what rebalance owes the node m it is invoked on
RebalanceRestores(m, rb) ==
  /\ compute_balancing_factor(m) \in -1..1 => (~rb.panic /\ rb.node = m)
  /\ (compute_balancing_factor(m) \in {-2, 2} /\ IsAVL(m.left) /\ IsAVL(m.right))
       => /\ ~rb.panic
          /\ rb.node \in OneRotationOf(m)
          /\ compute_balancing_factor(rb.node) \in -1..1
          /\ BalanceFactor(rb.node) \in -1..1

\* C24: given a node whose two child subtrees satisfy the AVL invariant and
\* whose own balance factor is +2 or -2, after rebalance the node's own
\* balance factor is within [-1, 1], by at most one single or double
\* rotation; when the balance factor is already within [-1, 1] the subtree is
\* left completely unchanged.  Stated for every invocation of rebalance that
\* a call makes.
C24_RebalanceRestores ==
  [][ \A m \in RebalanceInputs(tree, last'.op, last'.value) :
        RebalanceRestores(m, rebalance(m)) ]_vars

\* a drop_value can be made that hands rebalance a node of balance factor +2
\* with AVL children and a balanced right child, and one that hands it a node
\* it must leave alone
C24_Witness ==
  /\ \E v \in Values : \E m \in RebalanceInputs(tree, "drop_value", v) :
       /\ compute_balancing_factor(m) = 2 /\ IsAVL(m.left) /\ IsAVL(m.right)
       /\ compute_balancing_factor(m.right[1]) = 0
       /\ BalanceFactor(rebalance(m).node) \in -1..1
  /\ \E v \in Values : \E m \in RebalanceInputs(tree, "drop_value", v) :
       /\ compute_balancing_factor(m) \in -1..1 /\ rebalance(m).node = m

\* which branch of rebalance the node m takes
RebalanceBranch(m) ==
  IF compute_balancing_factor(m) > 1
    THEN IF compute_balancing_factor(m.right[1]) > 0 THEN "RightRight" ELSE "RightLeft"
  ELSE IF compute_balancing_factor(m) < -1
    THEN IF compute_balancing_factor(m.left[1]) < 0 THEN "LeftLeft" ELSE "LeftRight"
  ELSE "none"

\* rebalance keeps the in-order sequence of the subtree below m
KeepsInOrder(m, rb) ==
  ~rb.panic => collect_values_l_to_r(rb.node) = collect_values_l_to_r(m)

\* C25: rebalance never changes the in-order sequence of the values of the
\* subtree it is invoked on, in each of its four rotation branches: no value
\* is lost, duplicated or moved.  Stated for every invocation of rebalance
\* that a call makes.
C25_RebalanceKeepsInOrder ==
  [][ \A m \in RebalanceInputs(tree, last'.op, last'.value) :
        KeepsInOrder(m, rebalance(m)) ]_vars

\* the calls that can be made on this tree take rebalance through a single
\* rotation and through both double rotations, each on a subtree of at least
\* three values (eight values have no tree that offers all four branches at
\* once; the Left Left branch is taken from other trees)
C25_Witness ==
  \A b \in {"RightRight", "RightLeft", "LeftRight"} :
    \E op \in {"add", "drop_value"} : \E v \in Values :
      \E m \in RebalanceInputs(tree, op, v) :
        /\ RebalanceBranch(m) = b
        /\ ~rebalance(m).panic
        /\ Len(collect_values_l_to_r(m)) >= 3
        /\ collect_values_l_to_r(rebalance(m).node) = collect_values_l_to_r(m)

\* what the parent's slot receives when drop_value meets the value at n
SlotAfterDrop(n) == NodeDrop(n, n.value)

\* the three structural cases of a node with at most one child
StructuralCase(n, d) ==
  /\ is_leaf(n) => (d.res = Ok /\ d.node = None)
  /\ (n.left = None /\ n.right # None) => (d.res = Ok /\ d.node = n.right)
  /\ (n.right = None /\ n.left # None) => (d.res = Ok /\ d.node = n.left)

\* C26: when drop_value meets the value at a leaf the parent's slot becomes
\* absent; at a node with only a right child the slot receives that right
\* subtree intact (same shape, values and heights); at a node with only a
\* left child it receives the left subtree intact.  Stated for every node of
\* a reachable tree.
C26_StructuralCases ==
  \A n \in SubNodes(root) : StructuralCase(n, SlotAfterDrop(n))

\* a drop_value has just spliced out a node with only a right child, and the
\* tree it left holds a leaf, a node with only a left child and a node whose
\* only child is a right subtree of several nodes
C26_Witness ==
  /\ last.op = "drop_value" /\ last.res = Ok /\ last.case = "right_only"
  /\ \E n \in SubNodes(root) : is_leaf(n) /\ SlotAfterDrop(n).node = None
  /\ \E n \in SubNodes(root) :
       n.right = None /\ n.left # None /\ SlotAfterDrop(n).node = n.left
  /\ \E n \in SubNodes(root) :
       /\ n.left = None /\ n.right # None /\ NodeCount(n.right) >= 2
       /\ SlotAfterDrop(n).node = n.right

RECURSIVE BatchRebalanced(_, _, _)
\* every node on which the adds of add_all(collection), from element i on,
\* invoke rebalance, each add working on the tree the one before left
BatchRebalanced(t, collection, i) ==
  IF i > Len(collection) THEN {}
  ELSE RebalanceInputs(t, "add", collection[i])
         \cup BatchRebalanced(JavltAdd(t, collection[i]).tree, collection, i + 1)

\* every node on which the insertion call c on the tree t invokes rebalance
InsertionRebalanced(t, c) ==
  IF c.op = "add" THEN RebalanceInputs(t, "add", c.value)
  ELSE IF c.op = "add_all" THEN BatchRebalanced(t, c.collection, 1)
  ELSE {}

\* the balance factor of the child on the heavy side of m
HeavyChildFactor(m) ==
  IF compute_balancing_factor(m) > 1 THEN compute_balancing_factor(m.right[1])
  ELSE compute_balancing_factor(m.left[1])

\* when rebalance rotates at m, the child on the heavy side is not balanced
RotatesOnUnevenChild(m) ==
  RebalanceBranch(m) # "none" => HeavyChildFactor(m) # 0

\* C27: for sequences of add and add_all calls only, starting from an empty
\* tree, every node's balance factor is within [-1, 1] after each call, and
\* whenever rebalance rotates the heavy child's balance factor is non-zero.
C27_InsertionsBalanced ==
  [][ /\ \A n \in SubNodes(root') : BalanceFactor(n) \in -1..1
      /\ \A m \in InsertionRebalanced(tree, last') : RotatesOnUnevenChild(m)
    ]_vars

\* a tree of at least five values on which an add can make rebalance rotate
\* and on which an add_all can too
C27_Witness ==
  /\ size >= 5
  /\ \E v \in AddOnlyValues : \E m \in RebalanceInputs(tree, "add", v) :
       RebalanceBranch(m) # "none" /\ HeavyChildFactor(m) # 0
  /\ \E c \in Collections : \E m \in BatchRebalanced(tree, c, 1) :
       RebalanceBranch(m) # "none" /\ HeavyChildFactor(m) # 0

\* C28: no sequence of add, add_all, drop_value and query calls starting from
\* new() reaches a panic: rebalance and drop_value never unwrap an absent
\* child or grandchild, also on the states whose balance factors are outside
\* [-1, 1], and size never underflows below 0 (it counts the nodes).
C28_NoPanic ==
  /\ ~panicked
  /\ last.res # Panic
  /\ size >= 0
  /\ size = NodeCount(root)

\* a drop_value went through the general two-child case and returned Ok on a
\* tree that holds a node with balance factor outside [-1, 1]
C28_Witness ==
  /\ ~panicked
  /\ last.op = "drop_value" /\ last.res = Ok /\ last.case = "successor"
  /\ \E n \in SubNodes(root) : BalanceFactor(n) \notin -1..1

\* C29: in the general two-child case (both children internal nodes) the
\* recursive drop_value of the successor on the right subtree, whose Result is
\* discarded, always returns Ok and removes exactly one node, so a successful
\* drop_value removes exactly one node from the tree.
C29_SuccessorDropIsOk ==
  [][ /\ last'.inner \in {"none", Ok}
      /\ last'.case = "successor" => last'.inner = Ok
      /\ (last'.op = "drop_value" /\ last'.res = Ok)
           => NodeCount(root') = NodeCount(root) - 1
      /\ \A n \in TwoChildNodes(root) :
           (~is_leaf(n.right[1]) /\ ~is_leaf(n.left[1]))
             => /\ NodeDrop(n.right[1], least_value(n.right[1])).res = Ok
                /\ NodeCount(NodeDrop(n.right[1], least_value(n.right[1])).node)
                     = NodeCount(n.right) - 1
    ]_vars

\* a drop_value has just gone through the general two-child case: the inner
\* drop_value of the successor returned Ok
C29_Witness ==
  /\ last.op = "drop_value" /\ last.res = Ok
  /\ last.case = "successor" /\ last.inner = Ok
  /\ size = NodeCount(root) /\ size >= 4

RECURSIVE JblstNodeValues(_)
\* the value of every node below opt, one entry per node, left to right
JblstNodeValues(opt) ==
  IF opt = None THEN <<>>
  ELSE JblstNodeValues(opt[1].left) \o <<opt[1].value>> \o JblstNodeValues(opt[1].right)

\* C30: in a Jblst, after any sequence of add and drop_value calls, each
\* distinct value is held by at most one node (its occurrences are that
\* node's count).
C30_JblstOneNodePerValue ==
  \A i, j \in 1..Len(JblstNodeValues(root)) :
    JblstNodeValues(root)[i] = JblstNodeValues(root)[j] => i = j

====
